---- MODULE Spec2Model ----
(***************************************************************************)
(* A model of unt-scan.py: the conditional-fetch cache (database_file),    *)
(* the advisory filter (filter_db), the alert registry (AlertRegistry)     *)
(* and the __main__ pipeline that ties them together.                      *)
(*                                                                         *)
(* Files on disk are modelled by their bytes: a record [kind, obj] where   *)
(* kind says whether the path is absent, holds a pickle of obj, holds      *)
(* zero bytes (truncated) or holds bytes that do not unpickle.             *)
(***************************************************************************)
EXTENDS Integers, Sequences, FiniteSets, TLC

\* ------------------------------------------------------------------ bounds

\* Number of consecutive invocations of the script in one behaviour.
MaxRuns == 2
\* Number of consecutive invocations in the cache scenarios (SpecFetch).
MaxFetches == 3
\* Number of times the remote may publish a new version in those scenarios.
MaxRemoteChanges == 1
\* Wall clock (days) at which show_age runs.
Now == 9

\* ------------------------------------------------------------ value domains

Ids == {"USN-1", "USN-2"}
Packages == {"curl", "vim"}
Codenames == {"bionic", "xenial"}

\* A package version [epoch:]upstream, as the pair <<epoch, upstream>>.
V_old == <<0, 1>>
V_fix == <<0, 2>>
V_new == <<0, 3>>
V_epoch == <<1, 1>>
InstalledVersions == {V_old, V_fix, V_new, V_epoch}

\* An HTTP date "Www, DD Jan 2018 ...", as <<code of the first letter of the
\* weekday name, day of the month>>: Python compares the header strings
\* character by character, so the weekday letter is compared first.
LM_Mon01 == <<77, 1>>
LM_Tue02 == <<84, 2>>
LM_Fri05 == <<70, 5>>
LastMods == {LM_Mon01, LM_Tue02, LM_Fri05}
ETags == {"e1", "e2"}

\* ------------------------------------------------------------------- pickle

NoFile == [kind |-> "absent", obj |-> <<>>]
Truncated == [kind |-> "empty", obj |-> <<>>]
Garbage == [kind |-> "garbage", obj |-> <<>>]

\* pickle.dump(obj, f) on a file opened for writing: the file holds the
\* pickle of obj and nothing else.
pickle_dump(obj) == [kind |-> "pickle", obj |-> obj]

\* pickle.load(f) succeeds only on bytes that are a pickle.
pickle_loads(bytes) == bytes.kind = "pickle"
pickle_load(bytes) == bytes.obj

\* open(path, 'rb') / open(path, 'rb+') raise FileNotFoundError on a missing
\* path.
file_exists(bytes) == bytes.kind # "absent"

\* ---------------------------------------------------------- AlertRegistry

\* A register that forgets the id.
register_nothing(reg, unt) == reg

\* AlertRegistry.register: self.registry.append(unt)
register(reg, unt) == Append(reg, unt)

\* AlertRegistry.is_registered: unt in self.registry
is_registered(reg, unt) == \E i \in 1..Len(reg) : reg[i] = unt

\* AlertRegistry.save: pickle.dump(self.registry, f) on the file opened 'wb'
save(reg) == pickle_dump(reg)

\* --------------------------------------------------------------- filter_db

\* A release codename as main passes it: a string, or (after -c) the list
\* of positional arguments that getopt returned.
StrName(s) == [type |-> "str", s |-> s, l |-> <<>>]
ListName(l) == [type |-> "list", s |-> "", l |-> l]

\* release_codename in list(content['releases'].keys()): the keys are
\* strings, and a list never equals a string.
codename_in(c, keys) == c.type = "str" /\ c.s \in keys

\* The summary of an advisory: isummary, else summary, else 'No summary'.
summary_of(content) ==
    IF "isummary" \in DOMAIN content THEN content["isummary"]
    ELSE IF "summary" \in DOMAIN content THEN content["summary"]
    ELSE "No summary"

\* A generator that returns after the first package of an advisory.
filter_adv_first_only(unt, content, c) ==
    IF ~codename_in(c, DOMAIN content["releases"])
    THEN [items |-> <<>>, raised |-> FALSE]
    ELSE LET bins == content["releases"][c.s]["binaries"] IN
         IF bins = <<>> THEN [items |-> <<>>, raised |-> FALSE]
         ELSE IF "cves" \notin DOMAIN content
         THEN [items |-> <<>>, raised |-> TRUE]
         ELSE [items |-> <<[unt |-> unt,
                            name |-> bins[1].name,
                            version |-> bins[1].version,
                            summary |-> summary_of(content),
                            cves |-> content["cves"]]>>,
               raised |-> FALSE]

\* The items the generator yields for one advisory, and whether building an
\* item raised KeyError (content['cves'] of a record without that key).
filter_adv(unt, content, c) ==
    IF ~codename_in(c, DOMAIN content["releases"])
    THEN [items |-> <<>>, raised |-> FALSE]
    ELSE LET bins == content["releases"][c.s]["binaries"] IN
         IF bins = <<>> THEN [items |-> <<>>, raised |-> FALSE]
         ELSE IF "cves" \notin DOMAIN content
         THEN [items |-> <<>>, raised |-> TRUE]
         ELSE [items |-> [i \in 1..Len(bins) |->
                           [unt |-> unt,
                            name |-> bins[i].name,
                            version |-> bins[i].version,
                            summary |-> summary_of(content),
                            cves |-> content["cves"]]],
               raised |-> FALSE]

RECURSIVE filter_from(_, _, _)
filter_from(db, c, i) ==
    IF i > Len(db) THEN [items |-> <<>>, raised |-> FALSE]
    ELSE LET r == filter_adv(db[i].unt, db[i].content, c) IN
         IF r.raised THEN r
         ELSE LET rest == filter_from(db, c, i + 1) IN
              [items |-> r.items \o rest.items, raised |-> rest.raised]

\* filter_db(db, release_codename): the whole sequence the generator yields
\* when it is iterated to its end, and whether the iteration ends by an
\* exception instead of StopIteration.
filter_db(db, release_codename) == filter_from(db, release_codename, 1)

\* --------------------------------------------------------- version_compare

\* apt_pkg.version_compare(a, b): negative, zero or positive. Epochs are
\* compared first, then the upstream versions.
version_compare(a, b) ==
    IF a[1] # b[1] THEN a[1] - b[1] ELSE a[2] - b[2]

\* ------------------------------------------------------------------ getopt

\* A command-line token: an option (its name as written, and the value
\* attached to a long option with '=') or a positional word.
Short(n) == [t |-> "short", n |-> n, v |-> ""]
Long(n, v) == [t |-> "long", n |-> n, v |-> v]
Word(v) == [t |-> "word", n |-> v, v |-> v]

\* "hd:aoc:A" and ["help", "directory=", "all", "once", "age"]
ShortFlags == {"-h", "-a", "-o", "-A"}
ShortWithArg == {"-d", "-c"}
LongFlags == {"--help", "--all", "--once", "--age"}
LongWithArg == {"--directory"}

RECURSIVE getopt_from(_, _)
getopt_from(argv, i) ==
    IF i > Len(argv) THEN [err |-> FALSE, opts |-> <<>>, args |-> <<>>]
    ELSE LET tok == argv[i] IN
         IF tok.t = "word"
         THEN [err |-> FALSE, opts |-> <<>>,
               args |-> [j \in 1..(Len(argv) - i + 1) |-> argv[i + j - 1].n]]
         ELSE IF tok.t = "short" /\ tok.n \in ShortFlags
         THEN LET r == getopt_from(argv, i + 1) IN
              [r EXCEPT !.opts = <<[o |-> tok.n, a |-> ""]>> \o @]
         ELSE IF tok.t = "short" /\ tok.n \in ShortWithArg /\ i < Len(argv)
         THEN LET r == getopt_from(argv, i + 2) IN
              [r EXCEPT !.opts = <<[o |-> tok.n, a |-> argv[i + 1].n]>> \o @]
         ELSE IF tok.t = "long" /\ tok.n \in LongFlags /\ tok.v = ""
         THEN LET r == getopt_from(argv, i + 1) IN
              [r EXCEPT !.opts = <<[o |-> tok.n, a |-> ""]>> \o @]
         ELSE IF tok.t = "long" /\ tok.n \in LongWithArg /\ tok.v # ""
         THEN LET r == getopt_from(argv, i + 1) IN
              [r EXCEPT !.opts = <<[o |-> tok.n, a |-> tok.v]>> \o @]
         ELSE [err |-> TRUE, opts |-> <<>>, args |-> <<>>]

\* getopt.getopt(sys.argv[1:], ...): the (option, value) pairs and the
\* positional arguments, or GetoptError.
getopt(argv) ==
    LET r == getopt_from(argv, 1) IN
    IF r.err THEN [err |-> TRUE, opts |-> <<>>, args |-> <<>>] ELSE r

\* get_codename(): the DISTRIB_CODENAME line of /etc/lsb-release.
get_codename == "bionic"

\* The command lines the script is started with.
CmdLines ==
    { <<>>,
      <<Short("-a")>>,
      <<Short("-o")>>,
      <<Long("--all", "")>>,
      <<Short("-A")>>,
      <<Short("-a"), Long("--age", "")>>,
      <<Short("-h")>>,
      <<Short("-c"), Word("xenial")>>,
      <<Short("-c"), Word("xenial"), Word("bionic")>>,
      <<Long("--codename", "xenial")>>,
      <<Long("--directory", "/tmp/unt")>> }

\* ---------------------------------------------------------------- show_age

\* time.mktime(email.utils.parsedate(value)), in days.
mktime(lm) == lm[2]

\* What show_age prints, as the sequence of printed lines.
show_age(meta) ==
    IF ~file_exists(meta) \/ ~pickle_loads(meta)
    THEN <<[kind |-> "number", n |-> 0]>>
    ELSE LET headers == pickle_load(meta) IN
         IF "Last-Modified" \in DOMAIN headers
         THEN <<[kind |-> "number", n |-> Now - mktime(headers["Last-Modified"])]>>
         ELSE <<>>

\* ------------------------------------------------- database_file: freshness

\* Python's < on the two header strings: character by character.
str_less(a, b) == a[1] < b[1] \/ (a[1] = b[1] /\ a[2] < b[2])

\* A cache that never trusts its validators.
needs_update_always(headers, old_headers) == TRUE

\* A comparison that consults Last-Modified first and the ETag after it.
needs_update_last_modified_first(headers, old_headers) ==
    IF "Last-Modified" \in DOMAIN headers
       /\ "Last-Modified" \in DOMAIN old_headers
    THEN ~str_less(old_headers["Last-Modified"], headers["Last-Modified"])
    ELSE IF "ETag" \in DOMAIN headers /\ "ETag" \in DOMAIN old_headers
    THEN ~(headers["ETag"] = old_headers["ETag"])
    ELSE TRUE

\* Lines 131-137: the value of update after the comparison of the HEAD
\* response's headers with the stored ones.
needs_update(headers, old_headers) ==
    IF "ETag" \in DOMAIN headers /\ "ETag" \in DOMAIN old_headers
    THEN ~(headers["ETag"] = old_headers["ETag"])
    ELSE IF "Last-Modified" \in DOMAIN headers
            /\ "Last-Modified" \in DOMAIN old_headers
    THEN ~str_less(old_headers["Last-Modified"], headers["Last-Modified"])
    ELSE TRUE

\* --------------------------------------------------------------- the state

VARIABLES
    remote,        \* the server: [headers, body] it answers HEAD and GET with
    metaFile,      \* DIRECTORY/db.metadata.pickle
    bodyFile,      \* DIRECTORY/db.pickle
    alertsFile,    \* DIRECTORY/alerts.pickle
    cache,         \* apt.Cache(): the installed-package inventory
    pc,            \* position of the running script, "idle" between runs
    argv,          \* sys.argv[1:] of the running script
    opts,          \* options getopt returned that are not processed yet
    args,          \* positional arguments getopt returned
    ALERT_ONCE,    \* CONFIG['ALERT_ONCE']
    codename,      \* the variable codename of __main__
    db_file,       \* the bytes behind the handle database_file returned
    db,            \* the unpickled database
    registry,      \* AlertRegistry.registry
    items,         \* what the filter_db generator has still to yield
    gen_raises,    \* the generator ends by raising instead of stopping
    issues_found,  \* the flag of line 231
    reports,       \* the report records printed in this run
    stdout,        \* every other line printed in this run
    status,        \* [result, code] of the last finished run
    net,           \* the requests sent in this run
    head_seen,     \* the headers of this run's HEAD response, if it was 200
    old_headers,   \* the variable old_headers of database_file, once read
    loaded,        \* the registry as AlertRegistry.__init__ left it in this run
    prev,          \* history: the run before this one
    budget,        \* runs that may still be started
    changes,       \* versions the remote may still publish
    served         \* every <<ETag, body>> the remote has published so far

vars == <<remote, metaFile, bodyFile, alertsFile, cache, pc, argv, opts, args,
          ALERT_ONCE, codename, db_file, db, registry, items, gen_raises,
          issues_found, reports, stdout, status, net, head_seen, old_headers,
          loaded, prev, budget, changes, served>>

\* What a remote publishes under an ETag: the pair of its ETag and its body,
\* when it sends an ETag at all.
published(r) ==
    IF "ETag" \in DOMAIN r.headers THEN {<<r.headers["ETag"], r.body>>} ELSE {}

disk == <<metaFile, bodyFile, alertsFile>>
env == <<remote, cache, changes, served>>
fetch_state == <<db_file, net, head_seen, old_headers>>
scan_state == <<db, registry, items, gen_raises, issues_found, reports, loaded>>

Unset == [type |-> "unset", s |-> "", l |-> <<>>]
NoHeaders == [h \in {} |-> ""]
NoHead == [ok |-> FALSE, headers |-> NoHeaders]
NotLoaded == [ok |-> FALSE, reg |-> <<>>]

\* ------------------------------------------------------- the input domains

Binary(name, version) == [name |-> name, version |-> version]
BinaryLists ==
    { <<>>,
      <<Binary("curl", V_fix)>>,
      <<Binary("vim", V_fix)>>,
      <<Binary("curl", V_fix), Binary("vim", V_fix)>>,
      <<Binary("vim", V_fix), Binary("curl", V_fix)>> }

\* content['releases'] with the given binaries for bionic and, when
\* withXenial, curl for xenial.
Releases(hasBionic, bins, withXenial) ==
    [c \in {n \in Codenames : (n = "bionic" /\ hasBionic)
                               \/ (n = "xenial" /\ withXenial)} |->
        [binaries |-> IF c = "bionic" THEN bins
                      ELSE <<Binary("curl", V_fix)>>]]

ReleasesSet ==
    { Releases(TRUE, b, x) : b \in BinaryLists, x \in BOOLEAN }
    \cup { Releases(FALSE, <<>>, x) : x \in BOOLEAN }

\* Advisory records: with or without 'cves', with 'isummary', 'summary',
\* both or neither.
Contents(rels) ==
    UNION { { [releases |-> r, cves |-> <<"CVE-1">>, summary |-> "short"],
              [releases |-> r, cves |-> <<"CVE-1">>, isummary |-> "long",
               summary |-> "short"],
              [releases |-> r, cves |-> <<"CVE-1">>],
              [releases |-> r, summary |-> "short"] } : r \in rels }

\* A database: advisory records keyed by distinct ids, in the order
\* db.items() yields them.
Databases(contents) ==
    { <<>> }
    \cup { <<[unt |-> "USN-1", content |-> c]>> : c \in contents }
    \cup { <<[unt |-> "USN-1", content |-> c], [unt |-> "USN-2", content |-> d]>> :
             c \in contents, d \in contents }

Entry(in_cache, is_installed, version) ==
    [in_cache |-> in_cache, is_installed |-> is_installed, version |-> version]
Entries ==
    { Entry(FALSE, FALSE, V_old), Entry(TRUE, FALSE, V_old) }
    \cup { Entry(TRUE, TRUE, v) : v \in InstalledVersions }
Caches == [Packages -> Entries]

\* A header mapping with the given keys present.
Headers(hasETag, etag, hasLastModified, lastModified) ==
    [h \in {k \in {"ETag", "Last-Modified"} :
              (k = "ETag" /\ hasETag) \/ (k = "Last-Modified" /\ hasLastModified)} |->
        IF h = "ETag" THEN etag ELSE lastModified]

HeaderSets ==
    { Headers(he, e, FALSE, LM_Mon01) : he \in BOOLEAN, e \in ETags }
    \cup { Headers(he, e, TRUE, m) : he \in BOOLEAN, e \in ETags, m \in LastMods }

\* ------------------------------------------------------------- __main__

\* The run that ends here, as the next run's history.
ThisRun ==
    [status |-> status, once |-> ALERT_ONCE, reports |-> reports,
     net |-> net, db_file |-> db_file, head_seen |-> head_seen,
     loaded |-> loaded, saved |-> registry, alerts |-> alertsFile,
     meta |-> metaFile, body |-> bodyFile]

NoRun ==
    [status |-> [result |-> "none", code |-> 0, what |-> "none"], once |-> TRUE,
     reports |-> <<>>, net |-> <<>>, db_file |-> NoFile, head_seen |-> NoHead,
     loaded |-> NotLoaded, saved |-> <<>>, alerts |-> NoFile,
     meta |-> NoFile, body |-> NoFile]

\* Lines 231-237: a new process; getopt.getopt, exit 2 on GetoptError.
StartWith(cmdlines) ==
    /\ pc = "idle"
    /\ budget > 0
    /\ budget' = budget - 1
    /\ prev' = ThisRun
    /\ \E cmdline \in cmdlines :
         LET g == getopt(cmdline) IN
         /\ argv' = cmdline
         /\ opts' = g.opts
         /\ args' = g.args
         /\ IF g.err
            THEN /\ stdout' = <<[kind |-> "error", n |-> 0]>>
                 /\ status' = [result |-> "exit", code |-> 2, what |-> "usage"]
                 /\ pc' = "idle"
            ELSE /\ stdout' = <<>>
                 /\ status' = [result |-> "running", code |-> 0, what |-> "none"]
                 /\ pc' = "opts"
    /\ ALERT_ONCE' = TRUE
    /\ codename' = Unset
    /\ db_file' = NoFile
    /\ db' = <<>>
    /\ registry' = <<>>
    /\ items' = <<>>
    /\ gen_raises' = FALSE
    /\ issues_found' = FALSE
    /\ reports' = <<>>
    /\ net' = <<>>
    /\ head_seen' = NoHead
    /\ old_headers' = NoHead
    /\ loaded' = NotLoaded
    /\ UNCHANGED <<disk, env>>

StartRun == StartWith(CmdLines)

\* Lines 239-254: one turn of the option loop.
ProcessOpt ==
    /\ pc = "opts"
    /\ opts # <<>>
    /\ LET o == Head(opts).o IN
       /\ opts' = Tail(opts)
       /\ ALERT_ONCE' = IF o \in {"-a", "--all"} THEN FALSE
                        ELSE IF o \in {"-o", "--once"} THEN TRUE
                        ELSE ALERT_ONCE
       /\ codename' = IF o \in {"-c", "--codename="} THEN ListName(args)
                      ELSE codename
       /\ IF o \in {"-h", "--help"}
          THEN /\ stdout' = Append(stdout, [kind |-> "help", n |-> 0])
               /\ status' = [result |-> "exit", code |-> 0, what |-> "help"]
               /\ pc' = "idle"
          ELSE IF o \in {"-A", "--age"}
          THEN /\ stdout' = stdout \o show_age(metaFile)
               /\ status' = [result |-> "exit", code |-> 0, what |-> "age"]
               /\ pc' = "idle"
          ELSE UNCHANGED <<stdout, status, pc>>
    /\ UNCHANGED <<disk, env, argv, args, fetch_state, scan_state, prev, budget>>

\* Lines 256-266: PERSISTENT_STORAGE is never cleared, so line 257 is not
\* reached; the codename defaults to the detected one; the storage
\* directory exists.
OptsDone ==
    /\ pc = "opts"
    /\ opts = <<>>
    /\ codename' = IF codename = Unset THEN StrName(get_codename) ELSE codename
    /\ pc' = "head"
    /\ UNCHANGED <<disk, env, argv, opts, args, ALERT_ONCE, fetch_state,
                   scan_state, stdout, status, prev, budget>>

\* An uncaught exception ends the process: traceback, exit status 1.
Abort ==
    /\ pc' = "idle"
    /\ status' = [result |-> "abort", code |-> 1, what |-> "none"]

\* ----------------------------------------------------------- database_file

\* Lines 119-129: the stored headers are read, then overwritten with the
\* new ones. A missing file reads as {}; a file that does not unpickle
\* raises before anything is written.
old_headers_of(meta) == IF file_exists(meta) THEN pickle_load(meta) ELSE NoHeaders

\* A client that takes every HEAD response for a success.
head_ok_always(response) == TRUE

\* Lines 104-111: the HEAD request succeeded. A timeout or a connection
\* failure raises in getresponse(), any other status raises at line 111.
head_ok(response) == response = "200"

\* Lines 120-125: only FileNotFoundError is caught, so a metadata file that
\* exists and does not unpickle makes pickle.load raise out of the function.
metadata_load_fails(meta) == file_exists(meta) /\ ~pickle_loads(meta)

\* A cache that writes its metadata only when there is none.
write_metadata_if_absent(meta, headers) ==
    IF file_exists(meta) THEN meta ELSE pickle_dump(headers)

\* Lines 127-129: the headers are dumped at the start of the metadata file,
\* whatever it held.
write_metadata(meta, headers) == pickle_dump(headers)

\* A cache that trusts the comparison without looking for the body.
update_without_open(update, body) == update

\* Lines 139-145: when no update is needed the cached body is opened, and
\* update becomes True when that fails.
update_after_open(update, body) == update \/ ~file_exists(body)

\* Lines 104-145: the HEAD request, the metadata file, the freshness
\* decision and the attempt to open the cached body.
HeadRequest ==
    /\ pc = "head"
    /\ net' = Append(net, "HEAD")
    /\ \E response \in {"200", "500", "timeout"} :
         IF ~head_ok(response)
         THEN /\ Abort
              /\ UNCHANGED <<metaFile, db_file, head_seen, old_headers>>
         ELSE LET headers == remote.headers IN
              /\ head_seen' = [ok |-> response = "200", headers |-> headers]
              /\ IF metadata_load_fails(metaFile)
                 THEN /\ Abort
                      /\ UNCHANGED <<metaFile, db_file, old_headers>>
                 ELSE LET update == update_after_open(
                                       needs_update(headers, old_headers_of(metaFile)),
                                       bodyFile) IN
                      /\ old_headers' = [ok |-> TRUE,
                                         headers |-> old_headers_of(metaFile)]
                      /\ metaFile' = write_metadata(metaFile, headers)
                      /\ IF update
                         THEN /\ pc' = "get"
                              /\ UNCHANGED <<db_file, status>>
                         ELSE /\ db_file' = bodyFile
                              /\ pc' = "load"
                              /\ UNCHANGED status
    /\ UNCHANGED <<bodyFile, alertsFile, env, argv, opts, args, ALERT_ONCE,
                   codename, scan_state, stdout, prev, budget>>

\* Lines 147-166: the GET request. The body file is opened 'wb+', that is
\* truncated, after the status check and before response.read().
GetRequest ==
    /\ pc = "get"
    /\ net' = Append(net, "GET")
    /\ \E response \in {"200", "500", "timeout", "read timeout"} :
         IF response = "200"
         THEN /\ bodyFile' = remote.body
              /\ db_file' = remote.body
              /\ pc' = "load"
              /\ UNCHANGED status
         ELSE /\ Abort
              /\ bodyFile' = IF response = "read timeout" THEN Truncated ELSE bodyFile
              /\ UNCHANGED db_file
    /\ UNCHANGED <<metaFile, alertsFile, env, argv, opts, args, ALERT_ONCE,
                   codename, scan_state, stdout, head_seen, old_headers, prev,
                   budget>>

\* ------------------------------------------------------- the scan of main

\* A comparison that also alerts at the fixed version itself.
is_vulnerable_or_equal(entry, package) ==
    /\ entry.in_cache
    /\ entry.is_installed
    /\ version_compare(entry.version, package.version) <= 0

\* Lines 277-279: the package is in the apt cache, installed, and its
\* installed version is older than the fixed one.
is_vulnerable(entry, package) ==
    /\ entry.in_cache
    /\ entry.is_installed
    /\ version_compare(entry.version, package.version) < 0

\* A scan that never consults the registry.
alert_always(once, reg, unt) == TRUE

\* Lines 280-283: the value of alert for a vulnerable package.
alert(once, reg, unt) == IF once THEN ~is_registered(reg, unt) ELSE TRUE

\* Lines 289-292: the record printed for a package.
report(package, entry) ==
    [unt |-> package.unt, cves |-> package.cves, name |-> package.name,
     installed |-> entry.version, version |-> package.version,
     summary |-> package.summary]

\* A script that ends with sys.exit(1) whatever it found.
exit_code_always_1(found) == 1

\* Lines 296-297: sys.exit(1) if issues_found, else the script ends.
exit_code(found) == IF found THEN 1 ELSE 0

\* An __init__ that catches every exception of the load.
registry_load_never_fails(file) == FALSE

\* AlertRegistry.__init__, lines 58-61: only FileNotFoundError is caught, so
\* a file that exists and does not unpickle makes the constructor raise.
registry_load_fails(file) == file_exists(file) /\ ~pickle_loads(file)

\* A registry that starts empty whatever the file holds.
registry_init_empty(file) == <<>>

\* AlertRegistry.__init__: the unpickled list, or [] (saved at once) when
\* the file does not exist.
registry_init(file) == IF file_exists(file) THEN pickle_load(file) ELSE <<>>
registry_file_after_init(file) == IF file_exists(file) THEN file ELSE save(<<>>)

\* Lines 269-276: unpickle the database, open the apt cache, load the
\* registry, create the filter_db generator.
Prepare ==
    /\ pc = "load"
    /\ IF ~pickle_loads(db_file)
       THEN /\ Abort
            /\ UNCHANGED <<alertsFile, scan_state>>
       ELSE IF registry_load_fails(alertsFile)
       THEN /\ Abort
            /\ db' = pickle_load(db_file)
            /\ UNCHANGED <<alertsFile, registry, items, gen_raises,
                           issues_found, reports, loaded>>
       ELSE LET g == filter_db(pickle_load(db_file), codename) IN
            /\ db' = pickle_load(db_file)
            /\ registry' = registry_init(alertsFile)
            /\ alertsFile' = registry_file_after_init(alertsFile)
            /\ loaded' = [ok |-> TRUE, reg |-> registry_init(alertsFile)]
            /\ items' = g.items
            /\ gen_raises' = g.raised
            /\ pc' = "scan"
            /\ UNCHANGED <<issues_found, reports, status>>
    /\ UNCHANGED <<metaFile, bodyFile, env, argv, opts, args, ALERT_ONCE,
                   codename, fetch_state, stdout, prev, budget>>

\* Lines 276-292: one turn of the loop over the filtered packages.
ScanItem ==
    /\ pc = "scan"
    /\ items # <<>>
    /\ LET package == Head(items)
           entry == cache[package.name] IN
       /\ items' = Tail(items)
       /\ IF is_vulnerable(entry, package)
             /\ alert(ALERT_ONCE, registry, package.unt)
          THEN /\ registry' = register(registry, package.unt)
               /\ issues_found' = TRUE
               /\ reports' = Append(reports, report(package, entry))
          ELSE UNCHANGED <<registry, issues_found, reports>>
    /\ UNCHANGED <<disk, env, pc, argv, opts, args, ALERT_ONCE, codename, db,
                   fetch_state, gen_raises, loaded, stdout, status, prev, budget>>

\* The generator is exhausted: it raises (the exception leaves main before
\* line 294), or the loop ends, the registry is saved and the process
\* exits (lines 294-297).
ScanEnd ==
    /\ pc = "scan"
    /\ items = <<>>
    /\ IF gen_raises
       THEN /\ Abort
            /\ UNCHANGED alertsFile
       ELSE /\ alertsFile' = save(registry)
            /\ status' = [result |-> "exit", code |-> exit_code(issues_found),
                          what |-> "scan"]
            /\ pc' = "idle"
    /\ UNCHANGED <<metaFile, bodyFile, env, argv, opts, args, ALERT_ONCE,
                   codename, fetch_state, scan_state, stdout, prev, budget>>



\* ------------------------------------------------------ the scan: Spec

\* The advisories of the scanned feeds: for bionic or for xenial only, well
\* formed or without 'cves'.
ScanReleases ==
    { Releases(TRUE, <<Binary("curl", V_fix)>>, FALSE),
      Releases(TRUE, <<Binary("curl", V_fix), Binary("vim", V_fix)>>, FALSE),
      Releases(FALSE, <<>>, TRUE) }
ScanContents ==
    UNION { { [releases |-> r, cves |-> <<"CVE-1">>, summary |-> "short"],
              [releases |-> r, summary |-> "short"] } : r \in ScanReleases }
ScanCaches ==
    { c \in Caches : c["vim"] \in {Entry(FALSE, FALSE, V_old), Entry(TRUE, TRUE, V_old)} }

InitRun ==
    /\ pc = "idle"
    /\ argv = <<>>
    /\ opts = <<>>
    /\ args = <<>>
    /\ ALERT_ONCE = TRUE
    /\ codename = Unset
    /\ db_file = NoFile
    /\ db = <<>>
    /\ registry = <<>>
    /\ items = <<>>
    /\ gen_raises = FALSE
    /\ issues_found = FALSE
    /\ reports = <<>>
    /\ stdout = <<>>
    /\ status = [result |-> "none", code |-> 0, what |-> "none"]
    /\ net = <<>>
    /\ head_seen = NoHead
    /\ old_headers = NoHead
    /\ loaded = NotLoaded
    /\ prev = NoRun

\* A host with some inventory and an empty storage directory, in front of
\* a server that publishes one feed.
Init ==
    /\ InitRun
    /\ \E feed \in Databases(ScanContents) :
         remote = [headers |-> Headers(TRUE, "e1", TRUE, LM_Mon01),
                   body |-> pickle_dump(feed)]
    /\ cache \in ScanCaches
    /\ metaFile = NoFile
    /\ bodyFile = NoFile
    /\ alertsFile = NoFile
    /\ budget = MaxRuns
    /\ changes = 0
    /\ served = published(remote)

Next ==
    \/ StartRun
    \/ ProcessOpt
    \/ OptsDone
    \/ HeadRequest
    \/ GetRequest
    \/ Prepare
    \/ ScanItem
    \/ ScanEnd

Spec == Init /\ [][Next]_vars

\* ------------------------------------------------- the cache: SpecFetch

\* The two feeds the server of the cache scenarios publishes.
FeedA == <<>>
FeedB == <<[unt |-> "USN-1",
            content |-> [releases |-> Releases(TRUE, <<Binary("curl", V_fix)>>, FALSE),
                         cves |-> <<"CVE-1">>, summary |-> "short"]]>>
FetchBodies == {pickle_dump(FeedA), pickle_dump(FeedB)}
Remotes == [headers : HeaderSets, body : FetchBodies]

\* The server publishes something else: between two runs, or between the
\* HEAD and the GET of one run.
RemoteChange ==
    /\ pc \in {"idle", "get"}
    /\ changes > 0
    /\ changes' = changes - 1
    /\ remote' \in Remotes \ {remote}
    /\ served' = served \cup published(remote')
    /\ UNCHANGED <<disk, cache, pc, argv, opts, args, ALERT_ONCE, codename,
                   fetch_state, scan_state, stdout, status, prev, budget>>

\* Every pair a server can publish.
AllPublished == { p \in ETags \X FetchBodies : TRUE }

\* A host with curl installed at the old version, whose storage directory
\* is empty or holds files that do not unpickle, in front of a server
\* whose content and headers change and that has, before the first run,
\* published every body under every ETag.
InitFetch ==
    /\ InitRun
    /\ remote \in Remotes
    /\ cache = [p \in Packages |-> IF p = "curl" THEN Entry(TRUE, TRUE, V_old)
                                   ELSE Entry(FALSE, FALSE, V_old)]
    /\ metaFile \in {NoFile, Garbage}
    /\ bodyFile = NoFile
    /\ alertsFile \in {NoFile, Garbage}
    /\ budget = MaxFetches
    /\ changes = MaxRemoteChanges
    /\ served = AllPublished

\* The command lines of the cache scenarios: a scan, or the age query.
FetchCmdLines == { <<>>, <<Short("-A")>> }
StartFetchRun == StartWith(FetchCmdLines)

NextFetch ==
    \/ StartFetchRun
    \/ ProcessOpt
    \/ OptsDone
    \/ HeadRequest
    \/ GetRequest
    \/ Prepare
    \/ ScanItem
    \/ ScanEnd
    \/ RemoteChange

SpecFetch == InitFetch /\ [][NextFetch]_vars

\* The same scenarios on an empty storage directory, in front of a server
\* whose history starts with the first run: served holds what it published
\* since.
InitServe ==
    /\ InitRun
    /\ remote \in Remotes
    /\ cache = [p \in Packages |-> IF p = "curl" THEN Entry(TRUE, TRUE, V_old)
                                   ELSE Entry(FALSE, FALSE, V_old)]
    /\ metaFile = NoFile
    /\ bodyFile = NoFile
    /\ alertsFile = NoFile
    /\ budget = MaxFetches
    /\ changes = MaxRemoteChanges
    /\ served = published(remote)

SpecServe == InitServe /\ [][NextFetch]_vars

\* ------------------------------------------------ filter_db: SpecFilter

\* The release codenames filter_db is called with: one that advisories
\* name, one that none names, and the list that -c leaves in codename.
FilterNames ==
    { StrName("bionic"), StrName("xenial"), StrName("trusty"),
      ListName(<<>>), ListName(<<"bionic">>) }

\* list(filter_db(db, codename)): the generator iterated to its end.
FilterCall ==
    /\ pc = "filter"
    /\ items' = filter_db(db, codename).items
    /\ gen_raises' = filter_db(db, codename).raised
    /\ pc' = "filtered"
    /\ UNCHANGED <<disk, env, argv, opts, args, ALERT_ONCE, codename, db,
                   fetch_state, registry, issues_found, reports, loaded,
                   stdout, status, prev, budget>>

\* Any database of up to two advisories, any codename.
InitFilter ==
    /\ pc = "filter"
    /\ db \in Databases(Contents(ReleasesSet))
    /\ codename \in FilterNames
    /\ remote = [headers |-> NoHeaders, body |-> pickle_dump(db)]
    /\ cache = [p \in Packages |-> Entry(FALSE, FALSE, V_old)]
    /\ metaFile = NoFile
    /\ bodyFile = NoFile
    /\ alertsFile = NoFile
    /\ argv = <<>>
    /\ opts = <<>>
    /\ args = <<>>
    /\ ALERT_ONCE = TRUE
    /\ db_file = NoFile
    /\ registry = <<>>
    /\ items = <<>>
    /\ gen_raises = FALSE
    /\ issues_found = FALSE
    /\ reports = <<>>
    /\ stdout = <<>>
    /\ status = [result |-> "none", code |-> 0, what |-> "none"]
    /\ net = <<>>
    /\ head_seen = NoHead
    /\ old_headers = NoHead
    /\ loaded = NotLoaded
    /\ prev = NoRun
    /\ budget = 0
    /\ changes = 0
    /\ served = published(remote)

NextFilter == FilterCall

SpecFilter == InitFilter /\ [][NextFilter]_vars

\* ===================================================================
\* Properties
\* ===================================================================

Range(seq) == { seq[i] : i \in 1..Len(seq) }
UntsOf(recs) == { recs[i].unt : i \in 1..Len(recs) }
IsPrefix(a, b) == Len(a) <= Len(b) /\ \A i \in 1..Len(a) : a[i] = b[i]
NoRepeatedUnt(recs) ==
    \A i, j \in 1..Len(recs) : i # j => recs[i].unt # recs[j].unt

\* The run has ended as a scan that reached the end of main.
CompletedScan(st) == st.result = "exit" /\ st.what = "scan"

\* -------------------------------------------------------------------- C1
\* C1. Alert-once idempotence. When a scan with alert-once enabled follows
\* a scan with alert-once enabled that ran to its end (so that its registry
\* was saved), on the same feed and inventory, no advisory id reported by
\* the first run is reported by the second; and a run with alert-once
\* enabled reports no advisory id twice.
C1_AlertOnceIdempotence ==
    /\ ALERT_ONCE => NoRepeatedUnt(reports)
    /\ (ALERT_ONCE /\ prev.once /\ CompletedScan(prev.status))
          => UntsOf(reports) \cap UntsOf(prev.reports) = {}

\* The second of two such runs has ended; the first reported an advisory
\* with two vulnerable packages once, the second reported nothing.
C1_Witness ==
    /\ CompletedScan(status) /\ ALERT_ONCE
    /\ CompletedScan(prev.status) /\ prev.once
    /\ Len(prev.reports) = 1
    /\ Len(filter_db(db, codename).items) = 2
    /\ \A i \in 1..2 : is_vulnerable(cache[filter_db(db, codename).items[i].name],
                                      filter_db(db, codename).items[i])
    /\ filter_db(db, codename).items[1].unt = filter_db(db, codename).items[2].unt
    /\ reports = <<>>

\* -------------------------------------------------------------------- C2
\* The run fetched the feed with a HEAD and a GET that both returned 200.
FetchedByGet(r) ==
    r.net = <<"HEAD", "GET">> /\ r.head_seen.ok /\ pickle_loads(r.db_file)

\* The HEAD response of this run carries the ETag that the HEAD response
\* of the run before it carried.
SameETag ==
    /\ head_seen.ok /\ prev.head_seen.ok
    /\ "ETag" \in DOMAIN head_seen.headers
    /\ "ETag" \in DOMAIN prev.head_seen.headers
    /\ head_seen.headers["ETag"] = prev.head_seen.headers["ETag"]

\* C2. Cache freshness idempotence. After a run whose fetch completed with
\* HEAD 200 and GET 200, a fetch whose HEAD response carries the same ETag
\* sends the HEAD and no GET, and returns the bytes the first fetch
\* returned.
C2_FreshnessIdempotence ==
    (FetchedByGet(prev) /\ SameETag)
       => /\ net = <<"HEAD">>
          /\ pc # "get"
          /\ db_file = prev.db_file

\* Such a second fetch has returned, although the remote serves other
\* bytes by now.
C2_Witness ==
    /\ FetchedByGet(prev) /\ SameETag
    /\ pc = "load"
    /\ db_file = prev.db_file
    /\ remote.body # db_file

\* -------------------------------------------------------------------- C3
\* The stored Last-Modified date is older than the new one.
StoredIsOlder == mktime(old_headers.headers["Last-Modified"])
                    < mktime(head_seen.headers["Last-Modified"])

\* ETag is missing on one side and Last-Modified is present on both.
LastModifiedDecides ==
    /\ head_seen.ok /\ old_headers.ok
    /\ ~("ETag" \in DOMAIN head_seen.headers /\ "ETag" \in DOMAIN old_headers.headers)
    /\ "Last-Modified" \in DOMAIN head_seen.headers
    /\ "Last-Modified" \in DOMAIN old_headers.headers

\* C3. Last-Modified fallback. When ETag is missing on one side and
\* Last-Modified is present on both, a GET is sent if the stored date is
\* older than the new one, and no GET is sent (the cached body, if there is
\* one, is returned) if the stored date is not older.
C3_LastModifiedFallback ==
    LastModifiedDecides
       => /\ StoredIsOlder => (pc = "get" \/ "GET" \in Range(net))
          /\ (~StoredIsOlder /\ pc = "get") => ~file_exists(bodyFile)

\* -------------------------------------------------------------------- C4
\* C4. Registration of emitted alerts. In a scan that ran to its end, the
\* saved registry file holds every advisory id reported in the run and
\* every id the registry held when it was loaded; during a run the
\* registry only grows.
C4_EmittedAreRegistered ==
    /\ loaded.ok => IsPrefix(loaded.reg, registry)
    /\ CompletedScan(status)
          => /\ pickle_loads(alertsFile)
             /\ UntsOf(reports) \subseteq Range(pickle_load(alertsFile))
             /\ Range(loaded.reg) \subseteq Range(pickle_load(alertsFile))

\* A scan has ended that loaded a non-empty registry and reported two
\* advisories.
C4_Witness ==
    /\ CompletedScan(status)
    /\ loaded.ok /\ loaded.reg # <<>>
    /\ Cardinality(UntsOf(reports)) = 2

\* -------------------------------------------------------------------- C5
\* C5. Exit status of a completed scan: 1 if and only if a report was
\* printed in this run, 0 otherwise; a run whose vulnerable packages are
\* all suppressed prints no report and exits 0.
C5_ExitStatus ==
    CompletedScan(status)
       => /\ status.code \in {0, 1}
          /\ status.code = 1 <=> reports # <<>>

\* A scan exited 0 although a package is vulnerable, because the run before
\* it reported the advisory and exited 1.
C5_Witness ==
    /\ CompletedScan(status) /\ status.code = 0 /\ reports = <<>>
    /\ CompletedScan(prev.status) /\ prev.status.code = 1
    /\ \E i \in 1..Len(filter_db(db, codename).items) :
          is_vulnerable(cache[filter_db(db, codename).items[i].name],
                        filter_db(db, codename).items[i])

\* -------------------------------------------------------------------- C6
\* C6. The --age path always gives a numeric answer. A run with -A/--age
\* prints exactly one number, exits 0, sends no request, scans nothing and
\* leaves the metadata, body and registry files as they were.
C6_AgeAlwaysNumeric ==
    (status.result = "exit" /\ status.what = "age")
       => /\ Len(stdout) = 1
          /\ stdout[1].kind = "number"
          /\ status.code = 0
          /\ net = <<>>
          /\ reports = <<>>
          /\ metaFile = prev.meta
          /\ bodyFile = prev.body
          /\ alertsFile = prev.alerts

\* -------------------------------------------------------------------- C7
\* The NAME of a -c NAME or --codename=NAME on the command line, if any.
CodenameOption(cmdline) ==
    { cmdline[i + 1].n : i \in { k \in 1..(Len(cmdline) - 1) : cmdline[k] = Short("-c") } }
    \cup { cmdline[i].v : i \in { k \in 1..Len(cmdline) :
                                     cmdline[k].t = "long" /\ cmdline[k].n = "--codename" } }

\* C7. Codename override. filter_db is called with the NAME of -c NAME
\* (or --codename=NAME) when the option is given, and with the detected
\* codename only without it.
C7_CodenameOverride ==
    pc = "scan"
       => IF CodenameOption(argv) = {}
          THEN codename = StrName(get_codename)
          ELSE \E name \in CodenameOption(argv) : codename = StrName(name)

\* -------------------------------------------------------------------- C8
\* The (advisory id, package) pairs of the advisories whose releases
\* mapping contains the codename.
Pairs(d, c) ==
    UNION { { <<d[i].unt, d[i].content["releases"][c.s]["binaries"][j]>> :
                j \in 1..Len(d[i].content["releases"][c.s]["binaries"]) } :
            i \in { k \in 1..Len(d) :
                      c.type = "str" /\ c.s \in DOMAIN d[k].content["releases"] } }

\* C8. Filter correctness. Every item filter_db yields is a (advisory,
\* package) pair such that the advisory's releases contain the codename and
\* list the package, with the version listed there; no pair is yielded
\* twice; and when the iteration ends without an exception every such pair
\* is yielded. An advisory that omits the codename contributes no item.
C8_FilterCorrectness ==
    pc = "filtered"
       => /\ \A k \in 1..Len(items) :
               <<items[k].unt, Binary(items[k].name, items[k].version)>>
                  \in Pairs(db, codename)
          /\ \A k, l \in 1..Len(items) :
               (items[k].unt = items[l].unt /\ items[k].name = items[l].name) => k = l
          /\ ~gen_raises
               => \A p \in Pairs(db, codename) :
                     \E k \in 1..Len(items) :
                        items[k].unt = p[1] /\ items[k].name = p[2].name

\* A database of two advisories was filtered: one omits the codename, the
\* other lists two packages for it.
C8_Witness ==
    /\ pc = "filtered" /\ ~gen_raises
    /\ Len(db) = 2
    /\ codename = StrName("xenial")
    /\ "xenial" \notin DOMAIN db[1].content["releases"]
    /\ Len(items) = 1
    /\ items[1].unt = "USN-2"

\* -------------------------------------------------------------------- C9
\* C9. Registry round trip. A registry loaded from the file that the
\* previous scan saved answers is_registered(id) with true exactly for the
\* ids that scan held when it saved; a registry loaded from a missing path
\* is empty, and the file then exists and holds the empty registry.
C9_RegistryRoundTrip ==
    (pc = "scan" /\ loaded.ok)
       => /\ CompletedScan(prev.status)
               => \A id \in Ids :
                     is_registered(loaded.reg, id) <=> id \in Range(prev.saved)
          /\ ~file_exists(prev.alerts)
               => /\ \A id \in Ids : ~is_registered(loaded.reg, id)
                  /\ alertsFile = pickle_dump(<<>>)

\* A registry holding one of the two ids was saved and loaded again.
C9_Witness ==
    /\ pc = "scan" /\ loaded.ok
    /\ CompletedScan(prev.status)
    /\ is_registered(loaded.reg, "USN-2")
    /\ ~is_registered(loaded.reg, "USN-1")

\* ------------------------------------------------------------------- C10
StrictlyOlder(a, b) == a[1] < b[1] \/ (a[1] = b[1] /\ a[2] < b[2])

\* C10. No false alerts. Every report printed is for a filtered package
\* that is in the inventory, installed, and installed at a version strictly
\* older than the fixed version; and the registry gains an id only together
\* with a report.
C10_NoFalseAlerts ==
    /\ \A i \in 1..Len(reports) :
          LET r == reports[i]
              entry == cache[r.name] IN
          /\ entry.in_cache
          /\ entry.is_installed
          /\ r.installed = entry.version
          /\ StrictlyOlder(entry.version, r.version)
          /\ <<r.unt, Binary(r.name, r.version)>> \in Pairs(db, codename)
    /\ loaded.ok
          => registry = loaded.reg \o [i \in 1..Len(reports) |-> reports[i].unt]

\* A scan has ended that met two filtered packages and reported curl but
\* not vim, which is not in the inventory.
C10_Witness ==
    /\ CompletedScan(status)
    /\ Len(filter_db(db, codename).items) = 2
    /\ Len(reports) = 1
    /\ ~cache["vim"].in_cache
    /\ reports[1].name = "curl"

\* ------------------------------------------------------------------- C11
\* The filtered packages of this run that are vulnerable, as positions in
\* the sequence filter_db yields.
Filtered == filter_db(db, codename).items
VulnerableAt ==
    { i \in 1..Len(Filtered) : is_vulnerable(cache[Filtered[i].name], Filtered[i]) }
ReportedAt(i) ==
    \E k \in 1..Len(reports) :
       reports[k].unt = Filtered[i].unt /\ reports[k].name = Filtered[i].name
NoRepeatedId(reg) == \A i, j \in 1..Len(reg) : i # j => reg[i] # reg[j]

\* C11. Show-all mode does not re-register. With alert-once disabled every
\* vulnerable package is reported, an id that is not registered yet is
\* appended to the registry, and an id that is registered is not appended
\* again: the registry, in memory and on disk, holds every id at most once.
C11_NoReRegistration ==
    /\ (CompletedScan(status) /\ ~ALERT_ONCE)
          => /\ \A i \in VulnerableAt : ReportedAt(i)
             /\ UntsOf(reports) \subseteq Range(registry)
    /\ NoRepeatedId(registry)
    /\ pickle_loads(alertsFile) => NoRepeatedId(pickle_load(alertsFile))

\* ------------------------------------------------------------------- C12
\* C12 as claimed. In alert-once mode the vulnerable packages of one
\* advisory get one decision in a run: all are suppressed if the id was
\* registered before the run, and otherwise all are reported.
C12_UniformPerAdvisory ==
    (CompletedScan(status) /\ ALERT_ONCE)
       => \A i \in VulnerableAt :
             IF Filtered[i].unt \in Range(loaded.reg)
             THEN ~ReportedAt(i)
             ELSE ReportedAt(i)

\* ------------------------------------------------------------------- C13
\* The fetch of this run sent a GET and the GET did not complete: nothing
\* was returned and the run aborted.
GetFailed ==
    /\ "GET" \in Range(net)
    /\ status.result = "abort"
    /\ db_file = NoFile

\* C13. The cached body is replaced only by a successful update. After a
\* fetch whose GET did not complete (non-200 status, failure or timeout
\* while connecting or while reading the body) the body file holds exactly
\* what it held before the fetch.
C13_BodyReplacedOnlyOnSuccess == GetFailed => bodyFile = prev.body

\* ------------------------------------------------------------------- C14
\* C14 as claimed. After any fetch whose HEAD returned 200 the metadata
\* file holds the headers of that response.
C14_MetadataAlwaysOverwritten ==
    head_seen.ok => metaFile = pickle_dump(head_seen.headers)

\* The metadata file the fetch found could be read: it was missing, or it
\* held a pickle.
StoredMetadataReadable == ~file_exists(prev.meta) \/ pickle_loads(prev.meta)

\* C14, amended. After a fetch whose HEAD returned 200 and whose stored
\* metadata was missing or could be unpickled, the metadata file holds the
\* headers of that response, also when the GET is skipped or fails. When
\* the stored metadata exists and cannot be unpickled the fetch fails and
\* the file is left as it was.
C14_MetadataOverwritten ==
    /\ (head_seen.ok /\ StoredMetadataReadable)
          => metaFile = pickle_dump(head_seen.headers)
    /\ (head_seen.ok /\ ~StoredMetadataReadable)
          => /\ metaFile = prev.meta
             /\ status.result = "abort"
             /\ net = <<"HEAD">>

\* A GET failed after a HEAD that brought other headers than the stored
\* ones, and the metadata file holds the new headers.
C14_Witness ==
    /\ head_seen.ok /\ GetFailed
    /\ pickle_loads(prev.meta)
    /\ pickle_load(prev.meta) # head_seen.headers
    /\ metaFile = pickle_dump(head_seen.headers)

\* ------------------------------------------------------------------- C15
\* The fetch of this run sent its HEAD request and the request failed.
HeadFailed == net # <<>> /\ ~head_seen.ok

\* C15. A failed HEAD leaves the cache untouched. When the HEAD response
\* is not a 200 the fetch fails, no GET is sent, nothing is returned, and
\* the metadata file and the body file hold what they held before.
C15_FailedHeadLeavesCache ==
    HeadFailed
       => /\ status.result = "abort"
          /\ net = <<"HEAD">>
          /\ db_file = NoFile
          /\ metaFile = prev.meta
          /\ bodyFile = prev.body

\* A HEAD failed while a cache with metadata and body was on disk.
C15_Witness ==
    /\ HeadFailed
    /\ pickle_loads(prev.meta)
    /\ pickle_loads(prev.body)
    /\ metaFile = prev.meta /\ bodyFile = prev.body

\* ------------------------------------------------------------------- C16
GetIssued == pc = "get" \/ "GET" \in Range(net)

\* The comparison of the validators said fresh, and there was no body file.
FreshWithoutBody ==
    /\ head_seen.ok /\ old_headers.ok
    /\ ~needs_update(head_seen.headers, old_headers.headers)
    /\ ~file_exists(prev.body)

\* C16. Fresh without a body forces an update. When the comparison says
\* fresh and no body file can be opened a GET is sent, and unless the GET
\* fails the downloaded body is stored and returned: database_file never
\* returns without a body.
C16_FreshWithoutBodyUpdates ==
    FreshWithoutBody
       => /\ GetIssued
          /\ (pc # "get" /\ ~GetFailed)
                => /\ net = <<"HEAD", "GET">>
                   /\ file_exists(db_file)
                   /\ bodyFile = db_file

\* The comparison said fresh, there was no body, and the GET's body was
\* stored and returned.
C16_Witness ==
    /\ FreshWithoutBody
    /\ net = <<"HEAD", "GET">>
    /\ pickle_loads(db_file)
    /\ bodyFile = db_file

\* ------------------------------------------------------------------- C17
BothETags ==
    /\ head_seen.ok /\ old_headers.ok
    /\ "ETag" \in DOMAIN head_seen.headers
    /\ "ETag" \in DOMAIN old_headers.headers
BothLastModified ==
    /\ "Last-Modified" \in DOMAIN head_seen.headers
    /\ "Last-Modified" \in DOMAIN old_headers.headers

\* C17. The ETag takes precedence. When the HEAD response and the stored
\* metadata both carry an ETag, the cache is fresh exactly when the two
\* are equal, whatever the Last-Modified values are: with a body on disk a
\* GET is sent exactly when the ETags differ.
C17_ETagPrecedence ==
    BothETags
       => LET differ == head_seen.headers["ETag"] # old_headers.headers["ETag"] IN
          file_exists(prev.body) => (GetIssued <=> differ)

\* Different ETags, with Last-Modified values for which the comparison of
\* line 136 alone would have skipped the GET: the ETag decided.
C17_Witness ==
    /\ BothETags /\ BothLastModified
    /\ file_exists(prev.body)
    /\ head_seen.headers["ETag"] # old_headers.headers["ETag"]
    /\ str_less(old_headers.headers["Last-Modified"],
                head_seen.headers["Last-Modified"])
    /\ GetIssued

\* ------------------------------------------------------------------- C18
\* The registry file the run found exists and does not unpickle.
CorruptRegistry == file_exists(prev.alerts) /\ ~pickle_loads(prev.alerts)

\* C18. A corrupt registry is fatal, not reset. When the registry file
\* exists and cannot be unpickled the run never has a registry, emits no
\* report, does not reach the end of the scan and leaves the file as it
\* was; a run starts with an empty registry only when the file is missing
\* or holds an empty list.
C18_CorruptRegistryFatal ==
    /\ CorruptRegistry
          => /\ ~loaded.ok
             /\ reports = <<>>
             /\ pc # "scan"
             /\ ~CompletedScan(status)
             /\ alertsFile = prev.alerts
    /\ (loaded.ok /\ loaded.reg = <<>>)
          => \/ ~file_exists(prev.alerts)
             \/ pickle_loads(prev.alerts) /\ pickle_load(prev.alerts) = <<>>

\* A run fetched and unpickled the feed and aborted on the corrupt
\* registry file.
C18_Witness ==
    /\ CorruptRegistry
    /\ pc = "idle" /\ status.result = "abort"
    /\ pickle_loads(db_file)
    /\ ~loaded.ok
    /\ alertsFile = prev.alerts

\* ------------------------------------------------------------------- C19
\* C19. No partial success. A run that got past its options either reaches
\* the end of the scan, with every filtered package processed and the
\* registry saved with the reported ids, or aborts with no report emitted.
C19_NoPartialSuccess ==
    /\ CompletedScan(status)
          => /\ items = <<>>
             /\ alertsFile = save(registry)
             /\ UntsOf(reports) \subseteq Range(pickle_load(alertsFile))
    /\ status.result = "abort" => reports = <<>>

\* ------------------------------------------------------------------- C20
\* database_file returned the body file without sending a GET.
ReturnedFromCache ==
    /\ head_seen.ok
    /\ net = <<"HEAD">>
    /\ file_exists(db_file)

\* C20. Metadata and body stay consistent. Whenever database_file returns
\* the body file without a GET and the stored metadata carries an ETag,
\* the returned body is one the remote has published under that ETag.
C20_MetadataBodyConsistent ==
    (ReturnedFromCache /\ pickle_loads(db_file) /\ pickle_loads(metaFile)
       /\ "ETag" \in DOMAIN pickle_load(metaFile))
       => <<pickle_load(metaFile)["ETag"], db_file>> \in served

====
